---- MODULE Spec2Model ----
(***************************************************************************)
(* PDF Page Service (kai-com-trying/pdf-splitter-railway).                 *)
(*                                                                         *)
(* The repository holds several iterations of the same two-endpoint        *)
(* service.  The model has one request handler per distinct iteration:     *)
(*   splitPoppler  POST /api/split-pdf, pdfinfo + pdfseparate, temp files  *)
(*   splitLib      POST /api/split-pdf, pdf-lib, in memory                 *)
(*   convIM        POST /api/convert-to-images, pdftoppm -jpeg + convert   *)
(*   convFlat      POST /api/convert-to-images, flatten + pdftoppm -png    *)
(*   convImg       POST /api/convert-to-images, pdf-img-convert, in memory *)
(*   convForce     the same after forceFlatten (fields drawn on the pages) *)
(*   convAppear    the same after updateFieldAppearances + form.flatten    *)
(* Spec follows one request served alone, and the resubmission of one of   *)
(* its page results; SpecConc follows two overlapping requests on the      *)
(* handlers of one server file that share the temp directory.              *)
(* Every await of a handler is one step of its request.  File names are    *)
(* sequences of character codes, so that startsWith, endsWith, the regular *)
(* expressions and the default (code-unit) sort act as they do in the      *)
(* code.  An external call (fs, child process, library) either returns or  *)
(* throws; a throw is an environment fault, counted per request.           *)
(***************************************************************************)
EXTENDS Integers, Sequences, FiniteSets, TLC

\* ------------------------------------------------------------------ bounds
\* Largest page count of a submitted document.
MaxPages == 3
\* Longest `pages` selector of a convert-to-images request.
MaxSel == 2

Reqs == {1, 2}

\* ------------------------------------------------------------ JS strings
\* A string is the sequence of its character codes.
S_input == <<105, 110, 112, 117, 116, 95>>                \* "input_"
S_output == <<111, 117, 116, 112, 117, 116, 95>>          \* "output_"
S_page == <<95, 112, 97, 103, 101>>                       \* "_page"
S_pdf == <<46, 112, 100, 102>>                            \* ".pdf"
S_jpg == <<46, 106, 112, 103>>                            \* ".jpg"
S_png == <<46, 112, 110, 103>>                            \* ".png"
S_resized == <<95, 114, 101, 115, 105, 122, 101, 100, 46, 106, 112, 103>>  \* "_resized.jpg"
S_us == <<95>>                                            \* "_"
S_dash == <<45>>                                          \* "-"
S_abc == <<97, 98, 99>>                                   \* "abc"

IsDigit(c) == c >= 48 /\ c <= 57

RECURSIVE Digits(_)
\* String(n) of a non-negative integer, as in a template literal.
Digits(n) == IF n < 10 THEN <<48 + n>> ELSE Digits(n \div 10) \o <<48 + (n % 10)>>

RECURSIVE PadDigits(_, _)
\* printf("%0*d", w, n)
PadDigits(n, w) == LET d == Digits(n) IN IF Len(d) >= w THEN d ELSE <<48>> \o PadDigits(n, w - 1)

StartsWith(s, p) == Len(s) >= Len(p) /\ SubSeq(s, 1, Len(p)) = p

EndsWith(s, p) == Len(s) >= Len(p) /\ SubSeq(s, Len(s) - Len(p) + 1, Len(s)) = p

\* String.prototype.replace(pat, rep) with a string pattern: the first occurrence only.
ReplaceFirst(s, pat, rep) ==
  LET hits == {i \in 1..(Len(s) - Len(pat) + 1) : SubSeq(s, i, i + Len(pat) - 1) = pat}
  IN IF hits = {} THEN s
     ELSE LET i == CHOOSE k \in hits : \A j \in hits : k <= j
          IN SubSeq(s, 1, i - 1) \o rep \o SubSeq(s, i + Len(pat), Len(s))

\* JS numbers: an integer or NaN.  Every comparison with NaN is false.
NaN == [nan |-> TRUE, v |-> 0]
Num(n) == [nan |-> FALSE, v |-> n]
JsLt(a, b) == ~a.nan /\ ~b.nan /\ a.v < b.v
JsGt(a, b) == ~a.nan /\ ~b.nan /\ a.v > b.v
JsGe(a, b) == ~a.nan /\ ~b.nan /\ a.v >= b.v

RECURSIVE DigitsValue(_)
DigitsValue(d) == IF d = <<>> THEN 0 ELSE 10 * DigitsValue(SubSeq(d, 1, Len(d) - 1)) + (d[Len(d)] - 48)

\* The longest prefix of s made of digits.
DigitPrefix(s) ==
  LET n == CHOOSE k \in 0..Len(s) :
             /\ \A i \in 1..k : IsDigit(s[i])
             /\ (k < Len(s) => ~IsDigit(s[k + 1]))
  IN SubSeq(s, 1, n)

\* parseInt of a string: the leading digits, or NaN when there are none.
ParseIntStr(s) == IF DigitPrefix(s) = <<>> THEN NaN ELSE Num(DigitsValue(DigitPrefix(s)))

\* The capture of /<sep>(\d+)<ext>$/ on s, or <<>> when there is no match (null).
MatchNum(s, sep, ext) ==
  IF ~EndsWith(s, ext) THEN <<>>
  ELSE LET body == SubSeq(s, 1, Len(s) - Len(ext))
           k == CHOOSE j \in 0..Len(body) :
                  /\ \A i \in (Len(body) - j + 1)..Len(body) : IsDigit(body[i])
                  /\ (j < Len(body) => ~IsDigit(body[Len(body) - j]))
       IN IF k = 0 \/ k = Len(body) \/ body[Len(body) - k] # sep[1] THEN <<>>
          ELSE SubSeq(body, Len(body) - k + 1, Len(body))

\* a < b in the order of Array.prototype.sort() without a comparator.
LexLess(a, b) ==
  \E i \in 1..(Len(a) + 1) :
    /\ i <= Len(b)
    /\ \A j \in 1..(i - 1) : j <= Len(a) /\ a[j] = b[j]
    /\ (i = Len(a) + 1 \/ (i <= Len(a) /\ a[i] < b[i]))

RECURSIVE SortLex(_)
SortLex(S) ==
  IF S = {} THEN <<>>
  ELSE LET m == CHOOSE x \in S : \A y \in S \ {x} : LexLess(x, y)
       IN <<m>> \o SortLex(S \ {m})

RECURSIVE SortNum(_, _, _)
\* Array.prototype.sort((a, b) => numA - numB) with the numbers captured by
\* /<sep>(\d+)<ext>$/.  Names with equal numbers keep their readdir order, which the
\* file system chooses.
SortNum(S, sep, ext) ==
  IF S = {} THEN <<>>
  ELSE LET key(x) == DigitsValue(MatchNum(x, sep, ext))
           m == CHOOSE x \in S : \A y \in S : key(x) <= key(y)
       IN <<m>> \o SortNum(S \ {m}, sep, ext)

\* ------------------------------------------------------------- documents
\* A byte buffer: a PDF document (its pages' contents, in order, the number of its
\* form fields, whether they were flattened into the pages), a raster image (the
\* page it shows, its byte length), bytes that are no PDF, or no bytes at all.
EmptyBytes == [kind |-> "empty", pages |-> <<>>, fields |-> 0, flat |-> FALSE, size |-> 0]
JunkBytes == [EmptyBytes EXCEPT !.kind = "junk"]
Doc(n, f) == [EmptyBytes EXCEPT !.kind = "pdf", !.pages = [i \in 1..n |-> 10 * n + i], !.fields = f]
ValidDocs == {Doc(n, 0) : n \in 1..MaxPages} \cup {Doc(MaxPages, 1)}

\* Mutant: the page index is off by one.
ExtractNextPage(d, k) ==
  [EmptyBytes EXCEPT !.kind = "pdf", !.flat = d.flat,
                     !.pages = <<d.pages[IF k < Len(d.pages) THEN k + 1 ELSE 1]>>]

\* pdfseparate -f k -l k / copyPages([k-1]): a one-page document holding page k.
ExtractPage(d, k) == [EmptyBytes EXCEPT !.kind = "pdf", !.pages = <<d.pages[k]>>, !.flat = d.flat]

\* ---------------------------------------------------------- request body
Undef == [t |-> "undef", v |-> 0, s |-> <<>>, b |-> EmptyBytes]
JsNum(n) == [t |-> "num", v |-> n, s |-> <<>>, b |-> EmptyBytes]
JsStr(s) == [t |-> "str", v |-> 0, s |-> s, b |-> EmptyBytes]
JsB64(b) == [t |-> "b64", v |-> 0, s |-> <<>>, b |-> b]
JsArr(a) == [t |-> "arr", v |-> 0, s |-> a, b |-> EmptyBytes]

\* Mutant: the buffer is returned in an encoding that base64 decoding does not undo.
ToHex(b) == JsStr(S_abc)

\* Buffer.toString('base64') and Buffer.from(s, 'base64'): a base64 string is a
\* JS value of its own kind, never the bytes themselves; decoding a string that is
\* not the base64 of a buffer gives no document.
ToBase64(b) == JsB64(b)
FromBase64(x) == x.b

\* Mutant: a test for undefined instead of a test for truth.
IsDefined(x) == x.t # "undef"

\* JavaScript truthiness: undefined, 0, "" are falsy; an array is truthy.
Truthy(x) ==
  CASE x.t = "undef" -> FALSE
    [] x.t = "num" -> x.v # 0
    [] x.t = "str" -> x.s # <<>>
    [] x.t = "b64" -> x.b.kind # "empty"
    [] OTHER -> TRUE

\* parseInt(page): a number is converted to its string first.
ParseInt(x) == IF x.t = "num" THEN Num(x.v) ELSE ParseIntStr(x.s)

PdfInputs == {Undef, JsB64(EmptyBytes), JsB64(JunkBytes)} \cup {JsB64(d) : d \in ValidDocs}

PageInputs ==
  {Undef, JsStr(<<>>), JsStr(S_abc)}
    \cup {JsNum(k) : k \in 0..(MaxPages + 1)}
    \cup {JsStr(Digits(k)) : k \in 0..(MaxPages + 1)}

\* maxSize of convert-to-images, in MB: absent (5) or 1.
MaxSizeInputs == {Undef, JsNum(1)}

\* Page selectors of convert-to-images: absent, empty, or page numbers of the document.
SelInputs(n) ==
  {Undef, JsArr(<<>>)} \cup {JsArr(a) : a \in UNION {[1..l -> 1..n] : l \in 1..MaxSel}}

\* ------------------------------------------------------------ file names
\* path.join(tempDir, `input_${timestamp}.pdf`)
InputName(t) == S_input \o Digits(t) \o S_pdf
\* `output_${timestamp}_page${pageNumber}.pdf`
SplitPageName(t, k) == S_output \o Digits(t) \o S_page \o Digits(k) \o S_pdf
\* `output_${timestamp}_%d.pdf`, %d filled in by pdfseparate
SplitAllName(t, i) == S_output \o Digits(t) \o S_us \o Digits(i) \o S_pdf
\* `output_${timestamp}`
OutputPrefix(t) == S_output \o Digits(t)
\* pdftoppm's "<root>-<page>.<ext>", the page padded to the width of the page count
PpmName(root, n, total, ext) == root \o S_dash \o PadDigits(n, Len(Digits(total))) \o ext

\* ----------------------------------------------------------------- state
VARIABLES
  now,      \* Date.now(), in milliseconds
  dir,      \* the shared temp directory: file name -> bytes
  rq,       \* the requests: body, handler locals, position, response
  conc      \* whether requests may overlap

vars == <<now, dir, rq, conc>>

NoResp ==
  [status |-> 0, kind |-> "none", error |-> "", totalPages |-> 0, page |-> Num(0),
   base64 |-> ToBase64(EmptyBytes), count |-> 0, items |-> <<>>]

\* res.status(400).json({ error })
ErrResp(code, msg) == [NoResp EXCEPT !.status = code, !.kind = "error", !.error = msg]
\* res.status(400).json({ error: 'Invalid page number', totalPages })
InvalidPageResp(n) ==
  [NoResp EXCEPT !.status = 400, !.kind = "errorTotal", !.error = "Invalid page number",
                 !.totalPages = n]
\* res.status(200).json({ page, totalPages, base64 })
SingleResp(k, n, b) ==
  [NoResp EXCEPT !.status = 200, !.kind = "single", !.page = k, !.totalPages = n,
                 !.base64 = ToBase64(b)]
\* res.status(200).json({ count, pages })
AllResp(n, ps) == [NoResp EXCEPT !.status = 200, !.kind = "pages", !.count = n, !.items = ps]
\* res.status(200).json({ count: responseImages.length, images: responseImages })
ImagesResp(imgs) ==
  [NoResp EXCEPT !.status = 200, !.kind = "images", !.count = Len(imgs), !.items = imgs]

IdleReq ==
  [variant |-> "none", pdf |-> Undef, page |-> Undef, pages |-> Undef, pc |-> "idle",
   maxSize |-> Undef, timestamp |-> 0, tempPdfPath |-> <<>>, outputPrefix |-> <<>>, pdfBuffer |-> EmptyBytes,
   pageCount |-> 0, pageNumber |-> Num(0), files |-> <<>>, acc |-> <<>>,
   cur |-> EmptyBytes, err |-> "", resp |-> NoResp,
   created |-> {}, nfault |-> 0, cfault |-> FALSE, logged |-> FALSE, flat |-> "none",
   calls |-> {}, steps |-> 0, resub |-> FALSE, resizes |-> <<>>]

\* ------------------------------------------------------------ fs, throws
WriteFile(d, name, data) == [n \in DOMAIN d \cup {name} |-> IF n = name THEN data ELSE d[n]]
Unlink(d, name) == [n \in DOMAIN d \ {name} |-> d[n]]
Exists(d, name) == name \in DOMAIN d

\* The catch block of each handler.
CatchPc(v) ==
  CASE v = "splitPoppler" -> "sp_catch"
    [] v = "convIM" -> "ci_catch"
    [] v = "convFlat" -> "cf_catch"
    [] OTHER -> "lib_catch"

\* A throw inside the handler's try block: control moves to its catch block, which
\* sees the thrown error (err holds its message).
Throw(q, msg) == [q EXCEPT !.err = msg, !.pc = CatchPc(q.variant)]
\* The same, the throw being an environment fault: a call that could have returned
\* (nfault counts them; cfault tells that a call of the catch block's cleanup threw;
\* logged that the cleanup's own catch wrote to the log; created holds the names of
\* the files the request wrote).
Fault(q, msg) == [Throw(q, msg) EXCEPT !.nfault = @ + 1]
Respond(q, resp) == [q EXCEPT !.resp = resp, !.pc = "done"]
\* The request invokes an external engine (calls holds the engines invoked so far).
Call(q, engine) == [q EXCEPT !.calls = @ \cup {engine}]

\* Where the environment's faults strike: anywhere in a request served alone; when
\* two requests overlap, in the first of them only, the second being the request
\* whose own calls all return.
CanFault(r) == ~conc \/ r = 1

\* Request r's handler moves on to q (steps counts the steps it has taken).
Set(r, q) == rq' = [rq EXCEPT ![r] = [q EXCEPT !.steps = rq[r].steps + 1]]

\* { page: pageNum, base64: buffer.toString('base64') }
Entry(k, b) == [page |-> k, base64 |-> ToBase64(b)]

\* --------------------------------------------------------------- requests
Busy(r) == rq[r].pc \notin {"idle", "done"}
Done(q) == q.pc = "done"

SplitVariants == {"splitPoppler", "splitLib"}
ConvVariants == {"convIM", "convFlat", "convImg", "convForce", "convAppear"}
\* The handlers that use the shared temp directory.
TempFileVariants == {"splitPoppler", "convIM", "convFlat"}

\* The handlers each server file registers: two requests that overlap are served by
\* one of them.
Servers ==
  {{"splitPoppler", "convIM"}, {"splitLib", "convForce"}, {"splitLib", "convFlat"},
   {"splitLib", "convAppear"}, {"splitLib", "convImg"}}
SameServer(v, w) == w = "none" \/ \E sv \in Servers : {v, w} \subseteq sv

\* The request bodies of overlapping requests: a two-page document; all pages, a
\* page of it, or a page past its end.
ConcPdfInputs == {JsB64(Doc(2, 0))}
ConcPageInputs == {Undef, JsNum(1), JsNum(3)}
ConcSelInputs == {Undef, JsArr(<<1>>)}

\* A request arrives.  Without overlap (conc = FALSE) a behaviour follows one
\* request, served alone.
Arrive(r) ==
  /\ rq[r].pc = "idle"
  /\ conc \/ r = 1
  /\ \E pdf \in (IF conc THEN ConcPdfInputs ELSE PdfInputs) :
       \/ \E v \in SplitVariants, page \in (IF conc THEN ConcPageInputs ELSE PageInputs) :
            /\ conc => v \in TempFileVariants
            /\ \A o \in Reqs \ {r} : SameServer(v, rq[o].variant)
            /\ Set(r, [IdleReq EXCEPT !.variant = v, !.pdf = pdf, !.page = page,
                                      !.pc = "begin"])
       \/ \E v \in ConvVariants, maxSize \in MaxSizeInputs :
            \E sel \in (IF conc THEN ConcSelInputs
                        ELSE SelInputs(IF pdf.b.kind = "pdf" THEN Len(pdf.b.pages) ELSE 1)) :
              /\ conc => (v \in TempFileVariants /\ maxSize = Undef)
              /\ \A o \in Reqs \ {r} : SameServer(v, rq[o].variant)
              /\ v # "convIM" => maxSize = Undef
              /\ Set(r, [IdleReq EXCEPT !.variant = v, !.pdf = pdf, !.pages = sel,
                                        !.maxSize = maxSize, !.pc = "begin"])
  /\ UNCHANGED <<now, dir, conc>>

\* The page results of a 200 split-pdf response: the base64 of the single-page
\* response, those of the entries of the all-pages response.
PageResults(resp) ==
  IF resp.kind = "single" THEN {resp.base64}
  ELSE {resp.items[i].base64 : i \in 1..Len(resp.items)}

\* A client submits a page result of an answered split-pdf request as the pdf of a
\* new split-pdf request, with no page, to the same server.
Resubmit(r) ==
  /\ ~conc /\ rq[r].pc = "idle"
  /\ \E o \in Reqs \ {r} :
       /\ Done(rq[o]) /\ rq[o].variant \in SplitVariants /\ rq[o].resp.status = 200
       /\ \E b \in PageResults(rq[o].resp) :
            Set(r, [IdleReq EXCEPT !.variant = rq[o].variant, !.pdf = b, !.resub = TRUE,
                                   !.pc = "begin"])
  /\ UNCHANGED <<now, dir, conc>>

\* The values Date.now() may give when a handler takes its timestamp: the clock
\* stood still since it was last read, or it moved on.  Requests that do not
\* overlap get distinct timestamps: a request that took one awaited a file write
\* and a child process before it answered.
Timestamps == IF conc THEN {now, now + 1} ELSE {now + 1}

\* ------------------------------------------- split-pdf, Poppler variant
\* Mutant: the pdf check comes after pdfinfo was run.
SP_BeginLate(r) ==
  LET q == rq[r] IN
  /\ q.pc = "begin" /\ q.variant = "splitPoppler"
  /\ IF ~Truthy(q.pdf)
       THEN Set(r, Respond(Call(q, "pdfinfo"), ErrResp(400, "PDF data is required")))
       ELSE Set(r, [q EXCEPT !.pc = "sp_mkdir"])
  /\ UNCHANGED <<now, dir, conc>>

\* const { pdf, page } = req.body; if (!pdf) return 400
SP_Begin(r) ==
  LET q == rq[r] IN
  /\ q.pc = "begin" /\ q.variant = "splitPoppler"
  /\ IF ~Truthy(q.pdf)
       THEN Set(r, Respond(q, ErrResp(400, "PDF data is required")))
       ELSE Set(r, [q EXCEPT !.pc = "sp_mkdir"])
  /\ UNCHANGED <<now, dir, conc>>

\* await fs.mkdir; Buffer.from; Date.now(); tempPdfPath
SP_Mkdir(r) ==
  LET q == rq[r] IN
  /\ q.pc = "sp_mkdir"
  /\ \/ \E t \in Timestamps :
          /\ Set(r, [q EXCEPT !.pdfBuffer = FromBase64(q.pdf), !.timestamp = t,
                              !.tempPdfPath = InputName(t), !.pc = "sp_write"])
          /\ now' = t
     \/ /\ CanFault(r) /\ Set(r, Fault(q, "mkdir"))
        /\ UNCHANGED now
  /\ UNCHANGED <<dir, conc>>

\* await fs.writeFile(tempPdfPath, pdfBuffer)
SP_Write(r) ==
  LET q == rq[r] IN
  /\ q.pc = "sp_write"
  /\ \/ /\ dir' = WriteFile(dir, q.tempPdfPath, q.pdfBuffer)
        /\ Set(r, [q EXCEPT !.created = @ \cup {q.tempPdfPath}, !.pc = "sp_info"])
     \/ /\ CanFault(r) /\ Set(r, Fault(q, "writeFile"))
        /\ UNCHANGED dir
  /\ UNCHANGED <<now, conc>>

\* if (page) { pageNumber = parseInt(page); if (pageNumber < 1 || pageNumber > pageCount) ...
SP_AfterInfo(q, n) ==
  IF Truthy(q.page)
    THEN LET pn == ParseInt(q.page) IN
         IF JsLt(pn, Num(1)) \/ JsGt(pn, Num(n))
           THEN [q EXCEPT !.pageCount = n, !.pageNumber = pn, !.pc = "sp_unlink400"]
           ELSE [q EXCEPT !.pageCount = n, !.pageNumber = pn, !.pc = "sp_sep1"]
    ELSE [q EXCEPT !.pageCount = n, !.pc = "sp_sepAll"]

\* await execAsync(`pdfinfo ...`); pageCount from /Pages:\s+(\d+)/
SP_Info(r) ==
  LET q == Call(rq[r], "pdfinfo") IN
  /\ q.pc = "sp_info"
  /\ \/ /\ Exists(dir, q.tempPdfPath) /\ dir[q.tempPdfPath].kind = "pdf"
        /\ Set(r, SP_AfterInfo(q, Len(dir[q.tempPdfPath].pages)))
     \/ /\ ~(Exists(dir, q.tempPdfPath) /\ dir[q.tempPdfPath].kind = "pdf")
        /\ Set(r, Throw(q, "pdfinfo"))
     \/ /\ CanFault(r) /\ Set(r, Fault(q, "pdfinfo"))
  /\ UNCHANGED <<now, dir, conc>>

\* await fs.unlink(tempPdfPath); return 400 Invalid page number
SP_Unlink400(r) ==
  LET q == rq[r] IN
  /\ q.pc = "sp_unlink400"
  /\ \/ /\ Exists(dir, q.tempPdfPath)
        /\ dir' = Unlink(dir, q.tempPdfPath)
        /\ Set(r, Respond(q, InvalidPageResp(q.pageCount)))
     \/ /\ ~Exists(dir, q.tempPdfPath)
        /\ Set(r, Throw(q, "unlink"))
        /\ UNCHANGED dir
     \/ /\ CanFault(r) /\ Set(r, Fault(q, "unlink"))
        /\ UNCHANGED dir
  /\ UNCHANGED <<now, conc>>

\* pdfseparate can extract page k of the file at path.
CanSeparate(d, path, k) ==
  /\ Exists(d, path) /\ d[path].kind = "pdf"
  /\ ~k.nan /\ k.v >= 1 /\ k.v <= Len(d[path].pages)

\* await execAsync(`pdfseparate -f ${pageNumber} -l ${pageNumber} ...`)
SP_Sep1(r) ==
  LET q == Call(rq[r], "pdfseparate")
      out == SplitPageName(q.timestamp, q.pageNumber.v)
  IN
  /\ q.pc = "sp_sep1"
  /\ \/ /\ CanSeparate(dir, q.tempPdfPath, q.pageNumber)
        /\ dir' = WriteFile(dir, out, ExtractPage(dir[q.tempPdfPath], q.pageNumber.v))
        /\ Set(r, [q EXCEPT !.created = @ \cup {out}, !.pc = "sp_read1"])
     \/ /\ ~CanSeparate(dir, q.tempPdfPath, q.pageNumber)
        /\ Set(r, Throw(q, "pdfseparate"))
        /\ UNCHANGED dir
     \/ /\ CanFault(r) /\ Set(r, Fault(q, "pdfseparate"))
        /\ UNCHANGED dir
  /\ UNCHANGED <<now, conc>>

\* const pageBuffer = await fs.readFile(outputPath)
SP_Read1(r) ==
  LET q == rq[r]
      out == SplitPageName(q.timestamp, q.pageNumber.v)
  IN
  /\ q.pc = "sp_read1"
  /\ \/ /\ Exists(dir, out)
        /\ Set(r, [q EXCEPT !.cur = dir[out], !.pc = "sp_unlinkIn1"])
     \/ /\ ~Exists(dir, out)
        /\ Set(r, Throw(q, "readFile"))
     \/ /\ CanFault(r) /\ Set(r, Fault(q, "readFile"))
  /\ UNCHANGED <<now, dir, conc>>

\* await fs.unlink(path) inside the try block, then the handler goes on at pc `next`.
UnlinkThen(r, path, next) ==
  LET q == rq[r] IN
  \/ /\ Exists(dir, path)
     /\ dir' = Unlink(dir, path)
     /\ Set(r, next)
  \/ /\ ~Exists(dir, path)
     /\ Set(r, Throw(q, "unlink"))
     /\ UNCHANGED dir
  \/ /\ CanFault(r) /\ Set(r, Fault(q, "unlink"))
     /\ UNCHANGED dir

\* await fs.unlink(tempPdfPath) on the single-page path
SP_UnlinkIn1(r) ==
  LET q == rq[r] IN
  /\ q.pc = "sp_unlinkIn1"
  /\ UnlinkThen(r, q.tempPdfPath, [q EXCEPT !.pc = "sp_unlinkOut1"])
  /\ UNCHANGED <<now, conc>>

\* await fs.unlink(outputPath); return 200 { page, totalPages, base64 }
SP_UnlinkOut1(r) ==
  LET q == rq[r] IN
  /\ q.pc = "sp_unlinkOut1"
  /\ UnlinkThen(r, SplitPageName(q.timestamp, q.pageNumber.v),
                Respond(q, SingleResp(q.pageNumber, q.pageCount, q.cur)))
  /\ UNCHANGED <<now, conc>>

\* The files pdfseparate writes for pages 1..j of the document at path.
SeparateAll(d, path, t, j) ==
  LET names == {SplitAllName(t, i) : i \in 1..j}
      page(nm) == CHOOSE i \in 1..j : SplitAllName(t, i) = nm
  IN [nm \in DOMAIN d \cup names |->
        IF nm \in names THEN ExtractPage(d[path], page(nm)) ELSE d[nm]]

\* await execAsync(`pdfseparate "${tempPdfPath}" "${outputPattern}"`); a failing
\* pdfseparate leaves the pages it wrote so far.
SP_SepAll(r) ==
  LET q == Call(rq[r], "pdfseparate")
      ok == Exists(dir, q.tempPdfPath) /\ dir[q.tempPdfPath].kind = "pdf"
      n == IF ok THEN Len(dir[q.tempPdfPath].pages) ELSE 0
  IN
  /\ q.pc = "sp_sepAll"
  /\ \/ /\ ok
        /\ dir' = SeparateAll(dir, q.tempPdfPath, q.timestamp, n)
        /\ Set(r, [q EXCEPT !.created = @ \cup {SplitAllName(q.timestamp, i) : i \in 1..n},
                            !.pc = "sp_readdir"])
     \/ /\ ~ok
        /\ Set(r, Throw(q, "pdfseparate"))
        /\ UNCHANGED dir
     \/ /\ ok /\ \E j \in 0..(n - 1) :
             /\ dir' = SeparateAll(dir, q.tempPdfPath, q.timestamp, j)
             /\ CanFault(r) /\ Set(r, [Fault(q, "pdfseparate") EXCEPT
                          !.created = @ \cup {SplitAllName(q.timestamp, i) : i \in 1..j}])
  /\ UNCHANGED <<now, conc>>

\* Mutant: the filter forgets the timestamp.
SP_FilterAnyOutput(names, t) ==
  {f \in names : StartsWith(f, S_output) /\ EndsWith(f, S_pdf)}

\* files.filter(f => f.startsWith(`output_${timestamp}_`) && f.endsWith('.pdf'))
SP_Filter(names, t) ==
  {f \in names : StartsWith(f, S_output \o Digits(t) \o S_us) /\ EndsWith(f, S_pdf)}

\* const files = await fs.readdir(tempDir); filter; sort by page number.  The
\* comparator reads a.match(...)[1]: a name the pattern does not match throws.
SP_Readdir(r) ==
  LET q == rq[r]
      found == SP_Filter(DOMAIN dir, q.timestamp)
      sorted == SortNum(found, S_us, S_pdf)
  IN
  /\ q.pc = "sp_readdir"
  /\ \/ /\ Cardinality(found) >= 2 /\ \E f \in found : MatchNum(f, S_us, S_pdf) = <<>>
        /\ Set(r, Throw(q, "TypeError"))
     \/ /\ ~(Cardinality(found) >= 2 /\ \E f \in found : MatchNum(f, S_us, S_pdf) = <<>>)
        /\ Set(r, [q EXCEPT !.files = sorted,
                            !.pc = IF sorted = <<>> THEN "sp_unlinkIn" ELSE "sp_loopRead"])
     \/ /\ CanFault(r) /\ Set(r, Fault(q, "readdir"))
  /\ UNCHANGED <<now, dir, conc>>

\* const pageBuffer = await fs.readFile(filePath); pageNum = parseInt(file.match(...)[1]);
\* pages.push({ page: pageNum, base64 })
SP_LoopRead(r) ==
  LET q == rq[r]
      file == Head(q.files)
      m == MatchNum(file, S_us, S_pdf)
  IN
  /\ q.pc = "sp_loopRead"
  /\ \/ /\ Exists(dir, file) /\ m # <<>>
        /\ Set(r, [q EXCEPT !.acc = Append(@, Entry(DigitsValue(m), dir[file])),
                            !.pc = "sp_loopUnlink"])
     \/ /\ Exists(dir, file) /\ m = <<>>
        /\ Set(r, Throw(q, "TypeError"))
     \/ /\ ~Exists(dir, file)
        /\ Set(r, Throw(q, "readFile"))
     \/ /\ CanFault(r) /\ Set(r, Fault(q, "readFile"))
  /\ UNCHANGED <<now, dir, conc>>

\* await fs.unlink(filePath) at the end of the loop body
SP_LoopUnlink(r) ==
  LET q == rq[r]
      rest == Tail(q.files)
  IN
  /\ q.pc = "sp_loopUnlink"
  /\ UnlinkThen(r, Head(q.files),
                [q EXCEPT !.files = rest,
                          !.pc = IF rest = <<>> THEN "sp_unlinkIn" ELSE "sp_loopRead"])
  /\ UNCHANGED <<now, conc>>

\* await fs.unlink(tempPdfPath); return 200 { count: pageCount, pages }
SP_UnlinkIn(r) ==
  LET q == rq[r] IN
  /\ q.pc = "sp_unlinkIn"
  /\ UnlinkThen(r, q.tempPdfPath, Respond(q, AllResp(q.pageCount, q.acc)))
  /\ UNCHANGED <<now, conc>>

\* catch (error) { if (tempPdfPath) { try { await fs.unlink(tempPdfPath) } catch {} }
\*                 return 500 { error: error.message } }
SP_Catch(r) ==
  LET q == rq[r] IN
  /\ q.pc = "sp_catch"
  /\ \/ /\ q.tempPdfPath # <<>> /\ Exists(dir, q.tempPdfPath)
        /\ dir' = Unlink(dir, q.tempPdfPath)
        /\ Set(r, Respond(q, ErrResp(500, q.err)))
     \/ /\ q.tempPdfPath = <<>> \/ ~Exists(dir, q.tempPdfPath)
        /\ Set(r, Respond(q, ErrResp(500, q.err)))
        /\ UNCHANGED dir
     \/ /\ q.tempPdfPath # <<>>
        /\ CanFault(r)
        /\ Set(r, [Respond(q, ErrResp(500, q.err)) EXCEPT !.cfault = TRUE])
        /\ UNCHANGED dir
  /\ UNCHANGED <<now, conc>>

SplitPoppler(r) ==
  \/ SP_Begin(r) \/ SP_Mkdir(r) \/ SP_Write(r) \/ SP_Info(r) \/ SP_Unlink400(r)
  \/ SP_Sep1(r) \/ SP_Read1(r) \/ SP_UnlinkIn1(r) \/ SP_UnlinkOut1(r)
  \/ SP_SepAll(r) \/ SP_Readdir(r) \/ SP_LoopRead(r) \/ SP_LoopUnlink(r)
  \/ SP_UnlinkIn(r) \/ SP_Catch(r)

\* --------------------------------------------- split-pdf, pdf-lib variant
\* const { pdf, page } = req.body; if (!pdf) return 400
SL_Begin(r) ==
  LET q == rq[r] IN
  /\ q.pc = "begin" /\ q.variant = "splitLib"
  /\ IF ~Truthy(q.pdf)
       THEN Set(r, Respond(q, ErrResp(400, "PDF data is required")))
       ELSE Set(r, [q EXCEPT !.pdfBuffer = FromBase64(q.pdf), !.pc = "sl_load"])
  /\ UNCHANGED <<now, dir, conc>>

\* pageNumber - 1
JsPred(a) == IF a.nan THEN NaN ELSE Num(a.v - 1)

\* if (page) { pageNumber = parseInt(page); pageIndex = pageNumber - 1;
\*             if (pageIndex < 0 || pageIndex >= pageCount) return 400 ... }
SL_AfterLoad(q, n) ==
  IF Truthy(q.page)
    THEN LET pn == ParseInt(q.page)
             pageIndex == JsPred(pn)
         IN IF JsLt(pageIndex, Num(0)) \/ JsGe(pageIndex, Num(n))
              THEN Respond([q EXCEPT !.pageCount = n, !.pageNumber = pn], InvalidPageResp(n))
              ELSE [q EXCEPT !.pageCount = n, !.pageNumber = pn, !.pc = "sl_copy1"]
    ELSE [q EXCEPT !.pageCount = n, !.pc = "sl_copyAll"]

\* const pdfDoc = await PDFDocument.load(pdfBuffer, ...); pageCount = pdfDoc.getPageCount()
SL_Load(r) ==
  LET q == Call(rq[r], "load") IN
  /\ q.pc = "sl_load"
  /\ \/ /\ q.pdfBuffer.kind = "pdf"
        /\ Set(r, SL_AfterLoad(q, Len(q.pdfBuffer.pages)))
     \/ /\ q.pdfBuffer.kind # "pdf"
        /\ Set(r, Throw(q, "load"))
     \/ CanFault(r) /\ Set(r, Fault(q, "load"))
  /\ UNCHANGED <<now, dir, conc>>

\* newPdf = create(); [copiedPage] = copyPages(pdfDoc, [pageIndex]); addPage; save;
\* return 200 { page, totalPages, base64 }.  copyPages of an index that is no page throws.
SL_Copy1(r) ==
  LET q == Call(rq[r], "copyPages")
      pageIndex == JsPred(q.pageNumber)
  IN
  /\ q.pc = "sl_copy1"
  /\ \/ /\ ~pageIndex.nan
        /\ Set(r, Respond(q, SingleResp(q.pageNumber, q.pageCount,
                                        ExtractPage(q.pdfBuffer, pageIndex.v + 1))))
     \/ /\ pageIndex.nan
        /\ Set(r, Throw(q, "TypeError"))
     \/ CanFault(r) /\ Set(r, Fault(q, "save"))
  /\ UNCHANGED <<now, dir, conc>>

RECURSIVE SL_Loop(_, _, _, _)
\* for (let i = 0; i < pageCount; i++) { ...copyPages(pdfDoc, [i])...;
\*                                       pages.push({ page: i + 1, base64 }) }
SL_Loop(d, i, n, pages) ==
  IF i < n THEN SL_Loop(d, i + 1, n, Append(pages, Entry(i + 1, ExtractPage(d, i + 1))))
  ELSE pages

\* the all-pages loop; return 200 { count: pageCount, pages }
SL_CopyAll(r) ==
  LET q == Call(rq[r], "copyPages") IN
  /\ q.pc = "sl_copyAll"
  /\ \/ Set(r, Respond(q, AllResp(q.pageCount, SL_Loop(q.pdfBuffer, 0, q.pageCount, <<>>))))
     \/ CanFault(r) /\ Set(r, Fault(q, "save"))
  /\ UNCHANGED <<now, dir, conc>>

\* catch (error) { return 500 { error: error.message } }
LIB_Catch(r) ==
  LET q == rq[r] IN
  /\ q.pc = "lib_catch"
  /\ Set(r, Respond(q, ErrResp(500, q.err)))
  /\ UNCHANGED <<now, dir, conc>>

SplitLib(r) == SL_Begin(r) \/ SL_Load(r) \/ SL_Copy1(r) \/ SL_CopyAll(r) \/ LIB_Catch(r)

\* ------------------------------- convert-to-images, pdf-img-convert variant
\* The byte length of the image a page renders to is a property of the page.
RenderSize(c) ==
  CASE c % 10 = 1 -> 1048576
    [] c % 10 = 2 -> 5242881
    [] c % 10 = 3 -> 5242880
    [] OTHER -> 20971520

\* The raster image of page content c.
Render(c) == [EmptyBytes EXCEPT !.kind = "img", !.pages = <<c>>, !.size = RenderSize(c)]

\* pages && Array.isArray(pages) && pages.length > 0
HasSelection(pages) == Truthy(pages) /\ pages.t = "arr" /\ Len(pages.s) > 0

\* form.flatten() and doc.save(): the form fields become page content.
Flatten(d) == [d EXCEPT !.fields = 0, !.flat = TRUE]

\* forceFlatten(doc) and doc.save(): the fields' values are drawn onto the pages,
\* the fields stay.
ForceFlatten(d) == [d EXCEPT !.flat = TRUE]

\* pdfBuffer = Buffer.from(flattenedBytes), after doc.save() returned
FlattenSaved(q, d) == [q EXCEPT !.pdfBuffer = d, !.flat = "ok"]

\* flattenPdfForm found no field and returned false: nothing is saved.
FlattenSkipped(q) == [q EXCEPT !.flat = "skipped"]

\* Mutant: a failure of the flattening block leaves the buffer with the document as
\* it was flattened so far.
FlattenFailedPartial(q, d) == [q EXCEPT !.pdfBuffer = d, !.flat = "failed"]

\* catch (e) { console.log('Flattening skipped/failed:', e.message) }: load, the
\* flattening or save threw, d being the document in memory at that point; pdfBuffer
\* was not assigned.  flattenPdfForm's own catch (return false) ends the same way.
FlattenFailed(q, d) == [q EXCEPT !.flat = "failed"]

\* The flattening block: try { doc = await PDFDocument.load(pdfBuffer); flatten;
\* pdfBuffer = Buffer.from(await doc.save()) } catch (e) { log }.  Every call of it
\* may throw; bytes that are no PDF make load throw.
FlattenBlock(q) ==
  LET d == q.pdfBuffer
      done == IF q.variant = "convForce" THEN ForceFlatten(d) ELSE Flatten(d)
  IN IF d.kind # "pdf" THEN {FlattenFailed(q, d)}
     ELSE {FlattenFailed(q, d), FlattenFailed(q, done)}
            \cup (IF q.variant = "convFlat" /\ d.fields = 0
                    THEN {FlattenSkipped(q)} ELSE {FlattenSaved(q, done)})

\* const { pdf, pages } = req.body; if (!pdf) return 400
CG_Begin(r) ==
  LET q == rq[r] IN
  /\ q.pc = "begin" /\ q.variant \in {"convImg", "convForce", "convAppear"}
  /\ IF ~Truthy(q.pdf)
       THEN Set(r, Respond(q, ErrResp(400, "PDF data is required")))
       ELSE Set(r, [q EXCEPT !.pdfBuffer = FromBase64(q.pdf),
                             !.pc = IF q.variant = "convImg" THEN "cg_convert"
                                    ELSE "cg_flatten"])
  /\ UNCHANGED <<now, dir, conc>>

\* the flattening block of the in-memory variants
CG_Flatten(r) ==
  LET q == Call(rq[r], "load") IN
  /\ q.pc = "cg_flatten"
  /\ \E f \in FlattenBlock(q) : Set(r, [f EXCEPT !.pc = "cg_convert"])
  /\ UNCHANGED <<now, dir, conc>>

\* pdf2img.convert(pdfBuffer, config): the images of config.page_numbers, in that
\* order, or of every page.
Pdf2Img(d, pages) ==
  IF HasSelection(pages)
    THEN [i \in 1..Len(pages.s) |-> ToBase64(Render(d.pages[pages.s[i]]))]
    ELSE [i \in 1..Len(d.pages) |-> ToBase64(Render(d.pages[i]))]

\* outputImages.map((imgBase64, index) =>
\*   ({ page: (pages && pages[index]) ? pages[index] : index + 1, base64: imgBase64 }))
CG_Map(outputImages, pages) ==
  [i \in 1..Len(outputImages) |->
     [page |-> IF Truthy(pages) /\ i <= Len(pages.s) /\ pages.s[i] # 0
                 THEN pages.s[i] ELSE i,
      base64 |-> outputImages[i]]]

\* const outputImages = await pdf2img.convert(...); return 200 { count, images }
CG_Convert(r) ==
  LET q == Call(rq[r], "pdf2img") IN
  /\ q.pc = "cg_convert"
  /\ \/ /\ q.pdfBuffer.kind = "pdf"
        /\ Set(r, Respond(q, ImagesResp(CG_Map(Pdf2Img(q.pdfBuffer, q.pages), q.pages))))
     \/ /\ q.pdfBuffer.kind # "pdf"
        /\ Set(r, Throw(q, "convert"))
     \/ CanFault(r) /\ Set(r, Fault(q, "convert"))
  /\ UNCHANGED <<now, dir, conc>>

ConvImg(r) == CG_Begin(r) \/ CG_Flatten(r) \/ CG_Convert(r)

\* ------------------- convert-to-images, pdftoppm variants (convIM, convFlat)
Ext(v) == IF v = "convIM" THEN S_jpg ELSE S_png

\* const { pdf, pages, maxSize = 5 } = req.body; if (!pdf) return 400
CV_Begin(r) ==
  LET q == rq[r] IN
  /\ q.pc = "begin" /\ q.variant \in {"convIM", "convFlat"}
  /\ IF ~Truthy(q.pdf)
       THEN Set(r, Respond(q, ErrResp(400, "PDF data is required")))
       ELSE Set(r, [q EXCEPT !.pc = "cv_mkdir"])
  /\ UNCHANGED <<now, dir, conc>>

\* const timestamp = Date.now(); tempPdfPath = ...; outputPrefix = ...
CV_Stamp(q, t) ==
  [q EXCEPT !.timestamp = t, !.tempPdfPath = InputName(t), !.outputPrefix = OutputPrefix(t),
            !.pc = "cv_write"]

\* await fs.mkdir(tempDir); pdfBuffer = Buffer.from(pdf, 'base64'); convIM takes its
\* timestamp here, convFlat flattens first.
CV_Mkdir(r) ==
  LET q == rq[r]
      b == [q EXCEPT !.pdfBuffer = FromBase64(q.pdf)]
  IN
  /\ q.pc = "cv_mkdir"
  /\ \/ /\ q.variant = "convIM"
        /\ \E t \in Timestamps : Set(r, CV_Stamp(b, t)) /\ now' = t
     \/ /\ q.variant = "convFlat"
        /\ Set(r, [b EXCEPT !.pc = "cf_flatten"])
        /\ UNCHANGED now
     \/ /\ CanFault(r) /\ Set(r, Fault(q, "mkdir"))
        /\ UNCHANGED now
  /\ UNCHANGED <<dir, conc>>

\* try { doc = await PDFDocument.load(pdfBuffer); wasFlattened = await flattenPdfForm(doc);
\*       if (wasFlattened) { pdfBuffer = Buffer.from(await doc.save()) } } catch (e) { log }
\* flattenPdfForm returns false for a document without fields and when flatten throws.
CF_Flatten(r) ==
  LET q == Call(rq[r], "load") IN
  /\ q.pc = "cf_flatten"
  /\ \E t \in Timestamps, f \in FlattenBlock(q) :
       /\ now' = t
       /\ Set(r, CV_Stamp(f, t))
  /\ UNCHANGED <<dir, conc>>

\* await fs.writeFile(tempPdfPath, pdfBuffer)
CV_Write(r) ==
  LET q == rq[r] IN
  /\ q.pc = "cv_write"
  /\ \/ /\ dir' = WriteFile(dir, q.tempPdfPath, q.pdfBuffer)
        /\ Set(r, [q EXCEPT !.created = @ \cup {q.tempPdfPath}, !.pc = "cv_ppm"])
     \/ /\ CanFault(r) /\ Set(r, Fault(q, "writeFile"))
        /\ UNCHANGED dir
  /\ UNCHANGED <<now, conc>>

\* The output files of the pdftoppm command line, in the order they are written:
\* one `-f p -l p ... "${outputPrefix}_page${p}"` per selected page, joined by &&,
\* or one run over the whole document.
PpmOutputs(q, d) ==
  LET n == Len(d.pages) IN
  IF HasSelection(q.pages)
    THEN [i \in 1..Len(q.pages.s) |->
            LET p == q.pages.s[i] IN
            [name |-> PpmName(q.outputPrefix \o S_page \o Digits(p), p, n, Ext(q.variant)),
             data |-> Render(d.pages[p])]]
    ELSE [i \in 1..n |->
            [name |-> PpmName(q.outputPrefix, i, n, Ext(q.variant)),
             data |-> Render(d.pages[i])]]

RECURSIVE WriteAll(_, _, _)
\* The directory after the first j files of outs were written.
WriteAll(d, outs, j) ==
  IF j = 0 THEN d ELSE WriteFile(WriteAll(d, outs, j - 1), outs[j].name, outs[j].data)

\* await execAsync(command); a failing command line leaves the files written so far.
CV_Ppm(r) ==
  LET q == Call(rq[r], "pdftoppm")
      ok == Exists(dir, q.tempPdfPath) /\ dir[q.tempPdfPath].kind = "pdf"
      outs == IF ok THEN PpmOutputs(q, dir[q.tempPdfPath]) ELSE <<>>
  IN
  /\ q.pc = "cv_ppm"
  /\ \/ /\ ok
        /\ dir' = WriteAll(dir, outs, Len(outs))
        /\ Set(r, [q EXCEPT !.created = @ \cup {outs[i].name : i \in 1..Len(outs)},
                            !.pc = "cv_readdir"])
     \/ /\ ~ok
        /\ Set(r, Throw(q, "pdftoppm"))
        /\ UNCHANGED dir
     \/ /\ ok
        /\ \E j \in 0..(Len(outs) - 1) :
             /\ dir' = WriteAll(dir, outs, j)
             /\ CanFault(r) /\ Set(r, [Fault(q, "pdftoppm") EXCEPT
                          !.created = @ \cup {outs[i].name : i \in 1..j}])
  /\ UNCHANGED <<now, conc>>

\* files.filter(f => f.startsWith(`output_${timestamp}`) && f.endsWith('.jpg')).sort()
CV_Filter(names, t, ext) ==
  SortLex({f \in names : StartsWith(f, S_output \o Digits(t)) /\ EndsWith(f, ext)})

\* const files = await fs.readdir(tempDir); imageFiles = filter, sort
CV_Readdir(r) ==
  LET q == rq[r]
      imageFiles == CV_Filter(DOMAIN dir, q.timestamp, Ext(q.variant))
  IN
  /\ q.pc = "cv_readdir"
  /\ \/ Set(r, [q EXCEPT !.files = imageFiles,
                         !.pc = IF imageFiles = <<>> THEN "cv_unlinkIn" ELSE "cv_loopRead"])
     \/ CanFault(r) /\ Set(r, Fault(q, "readdir"))
  /\ UNCHANGED <<now, dir, conc>>

\* const maxSizeBytes = maxSize * 1024 * 1024, maxSize defaulting to 5
MaxSizeBytes(q) == (IF q.maxSize.t = "undef" THEN 5 ELSE q.maxSize.v) * 1024 * 1024

\* match = file.match(/-(\d+)\.<ext>$/); pageNum = match ? parseInt(match[1])
\*                                               : responseImages.length + 1
CV_PageNum(file, ext, images) ==
  LET m == MatchNum(file, S_dash, ext)
  IN IF m # <<>> THEN DigitsValue(m) ELSE Len(images) + 1

\* responseImages.push({ page: pageNum, base64: base64Image, ... })
CV_Push(q, buf) ==
  [q EXCEPT !.acc = Append(@, Entry(CV_PageNum(Head(q.files), Ext(q.variant), q.acc), buf)),
            !.pc = "cv_loopUnlink"]

\* let imageBuffer = await fs.readFile(filePath); if (imageBuffer.length > maxSizeBytes)
\* resize, else push
CV_LoopRead(r) ==
  LET q == rq[r]
      file == Head(q.files)
  IN
  /\ q.pc = "cv_loopRead"
  /\ \/ /\ Exists(dir, file)
        /\ IF q.variant = "convIM" /\ dir[file].size > MaxSizeBytes(q)
             THEN Set(r, [q EXCEPT !.cur = dir[file], !.pc = "ci_resize"])
             ELSE Set(r, CV_Push(q, dir[file]))
     \/ /\ ~Exists(dir, file)
        /\ Set(r, Throw(q, "readFile"))
     \/ CanFault(r) /\ Set(r, Fault(q, "readFile"))
  /\ UNCHANGED <<now, dir, conc>>

\* a * k as a two-digit number in base 4096 (the products exceed 32 bits).
Wide(a, k) ==
  LET lo == k * (a % 4096)
  IN <<k * (a \div 4096) + (lo \div 4096), lo % 4096>>

WideLeq(x, y) == x[1] < y[1] \/ (x[1] = y[1] /\ x[2] <= y[2])

\* Mutant: the scale factor without its safety margin.
ScalePercentNoMargin(maxBytes, length) ==
  CHOOSE p \in 0..200 :
    /\ WideLeq(Wide(length, p * p), Wide(maxBytes, 10000))
    /\ ~WideLeq(Wide(length, (p + 1) * (p + 1)), Wide(maxBytes, 10000))

\* scaleFactor = Math.sqrt(maxSizeBytes / imageBuffer.length) * 0.9;
\* scalePercent = Math.floor(scaleFactor * 100): the largest p with
\* p * p * length <= 90 * 90 * maxSizeBytes.
ScalePercent(maxBytes, length) ==
  CHOOSE p \in 0..200 :
    /\ WideLeq(Wide(length, p * p), Wide(maxBytes, 8100))
    /\ ~WideLeq(Wide(length, (p + 1) * (p + 1)), Wide(maxBytes, 8100))

\* The byte length of an image of `length` bytes resized to pct percent in both
\* dimensions, when the encoded size follows the pixel area.
ResizedSize(length, pct) == (length \div 10000) * pct * pct

\* The byte lengths ImageMagick's `convert -resize pct% -quality 95` may give: the
\* one that follows the pixel area, or, the image being encoded anew at quality 95,
\* one as large as the image was.  The handler does not choose between them.
ResizedSizes(length, pct) == {ResizedSize(length, pct), length}

\* const resizedPath = filePath.replace('.jpg', '_resized.jpg')
ResizedPath(file) == ReplaceFirst(file, S_jpg, S_resized)

\* await execAsync(`convert "${filePath}" -resize ${scalePercent}% ... "${resizedPath}"`)
CI_Resize(r) ==
  LET q == Call(rq[r], "convert")
      file == Head(q.files)
      pct == ScalePercent(MaxSizeBytes(q), q.cur.size)
  IN
  /\ q.pc = "ci_resize"
  /\ \/ /\ Exists(dir, file)
        /\ \E size \in ResizedSizes(dir[file].size, pct) :
             dir' = WriteFile(dir, ResizedPath(file), [dir[file] EXCEPT !.size = size])
        /\ Set(r, [q EXCEPT !.created = @ \cup {ResizedPath(file)}, !.pc = "ci_readResized",
                            !.resizes = Append(@, [file |-> file, length |-> q.cur.size,
                                                   pct |-> pct])])
     \/ /\ ~Exists(dir, file)
        /\ Set(r, Throw(q, "convert"))
        /\ UNCHANGED dir
     \/ /\ CanFault(r) /\ Set(r, Fault(q, "convert"))
        /\ UNCHANGED dir
  /\ UNCHANGED <<now, conc>>

\* imageBuffer = await fs.readFile(resizedPath)
CI_ReadResized(r) ==
  LET q == rq[r]
      path == ResizedPath(Head(q.files))
  IN
  /\ q.pc = "ci_readResized"
  /\ \/ /\ Exists(dir, path)
        /\ Set(r, [q EXCEPT !.cur = dir[path], !.pc = "ci_unlinkResized"])
     \/ /\ ~Exists(dir, path)
        /\ Set(r, Throw(q, "readFile"))
     \/ CanFault(r) /\ Set(r, Fault(q, "readFile"))
  /\ UNCHANGED <<now, dir, conc>>

\* Mutant: the resized image is never removed.
CI_KeepResized(r) ==
  LET q == rq[r] IN
  /\ q.pc = "ci_unlinkResized"
  /\ Set(r, CV_Push(q, q.cur))
  /\ UNCHANGED <<now, dir, conc>>

\* await fs.unlink(resizedPath); then the push
CI_UnlinkResized(r) ==
  LET q == rq[r] IN
  /\ q.pc = "ci_unlinkResized"
  /\ UnlinkThen(r, ResizedPath(Head(q.files)), CV_Push(q, q.cur))
  /\ UNCHANGED <<now, conc>>

\* await fs.unlink(filePath) at the end of the loop body
CV_LoopUnlink(r) ==
  LET q == rq[r]
      rest == Tail(q.files)
  IN
  /\ q.pc = "cv_loopUnlink"
  /\ UnlinkThen(r, Head(q.files),
                [q EXCEPT !.files = rest,
                          !.pc = IF rest = <<>> THEN "cv_unlinkIn" ELSE "cv_loopRead"])
  /\ UNCHANGED <<now, conc>>

\* if (tempPdfPath) { await fs.unlink(tempPdfPath) }; return 200 { count, images }
CV_UnlinkIn(r) ==
  LET q == rq[r] IN
  /\ q.pc = "cv_unlinkIn"
  /\ UnlinkThen(r, q.tempPdfPath, Respond(q, ImagesResp(q.acc)))
  /\ UNCHANGED <<now, conc>>

\* Mutant: the cleanup's failure leaves the handler: no response is sent.
CleanupEscapes(q) == [q EXCEPT !.logged = FALSE, !.cfault = TRUE, !.pc = "rejected"]

\* Mutant: the cleanup's failure is reported in place of the original error.
CleanupMasks(q) == Respond([q EXCEPT !.logged = TRUE, !.cfault = TRUE], ErrResp(500, "cleanup"))

\* catch (cleanupError) { console.error(...) }; return 500 { error: error.message }
CleanupFailed(q) == Respond([q EXCEPT !.logged = TRUE, !.cfault = TRUE], ErrResp(500, q.err))

\* catch (error) { try { if (tempPdfPath) await fs.unlink(tempPdfPath); ...
CV_Catch1(r) ==
  LET q == rq[r]
      next == IF q.variant = "convFlat" /\ q.outputPrefix = <<>>
                THEN Respond(q, ErrResp(500, q.err))
                ELSE [q EXCEPT !.pc = "cv_catch2"]
  IN
  /\ q.pc \in {"ci_catch", "cf_catch"}
  /\ \/ /\ q.tempPdfPath = <<>>
        /\ Set(r, next)
        /\ UNCHANGED dir
     \/ /\ q.tempPdfPath # <<>> /\ Exists(dir, q.tempPdfPath)
        /\ dir' = Unlink(dir, q.tempPdfPath)
        /\ Set(r, next)
     \/ /\ q.tempPdfPath # <<>> /\ ~Exists(dir, q.tempPdfPath)
        /\ Set(r, CleanupFailed(q))
        /\ UNCHANGED dir
     \/ /\ q.tempPdfPath # <<>>
        /\ CanFault(r) /\ Set(r, CleanupFailed(q))
        /\ UNCHANGED dir
  /\ UNCHANGED <<now, conc>>

\* ... const files = await fs.readdir(tempDir);
\*     const cleanupFiles = files.filter(f => f.startsWith(`output_${timestamp}`));
\*     await Promise.all(cleanupFiles.map(f => fs.unlink(...).catch(() => {}))) } ...
\* `timestamp` is a const of the try block: the filter callback, called for the
\* first file, throws a ReferenceError, which the cleanup's own catch logs.
CI_Catch2(r) ==
  LET q == rq[r] IN
  /\ q.pc = "cv_catch2" /\ q.variant = "convIM"
  /\ \/ /\ DOMAIN dir = {}
        /\ Set(r, Respond(q, ErrResp(500, q.err)))
     \/ /\ DOMAIN dir # {}
        /\ Set(r, Respond([q EXCEPT !.logged = TRUE], ErrResp(500, q.err)))
     \/ CanFault(r) /\ Set(r, CleanupFailed(q))
  /\ UNCHANGED <<now, dir, conc>>

RECURSIVE UnlinkAll(_, _)
UnlinkAll(d, names) ==
  IF names = {} THEN d
  ELSE LET nm == CHOOSE x \in names : TRUE IN UnlinkAll(Unlink(d, nm), names \ {nm})

\* ... if (outputPrefix) { files = await fs.readdir(tempDir);
\*       cleanupFiles = files.filter(f => f.startsWith(`output_${Date.now()}`));
\*       await Promise.all(cleanupFiles.map(f => fs.unlink(...))) } ...
\* Date.now() is read when the catch block runs.
CF_Catch2(r) ==
  LET q == rq[r] IN
  /\ q.pc = "cv_catch2" /\ q.variant = "convFlat"
  /\ \/ \E t \in {now, now + 1} :
          LET cleanupFiles == {f \in DOMAIN dir : StartsWith(f, S_output \o Digits(t))}
          IN \E failed \in SUBSET cleanupFiles :
               /\ failed # {} => CanFault(r)
               /\ now' = t
               /\ dir' = UnlinkAll(dir, cleanupFiles \ failed)
               /\ Set(r, IF failed = {} THEN Respond(q, ErrResp(500, q.err))
                         ELSE CleanupFailed(q))
     \/ /\ CanFault(r) /\ Set(r, CleanupFailed(q))
        /\ UNCHANGED <<now, dir>>
  /\ UNCHANGED conc

ConvPpm(r) ==
  \/ CV_Begin(r) \/ CV_Mkdir(r) \/ CF_Flatten(r) \/ CV_Write(r) \/ CV_Ppm(r)
  \/ CV_Readdir(r) \/ CV_LoopRead(r) \/ CI_Resize(r) \/ CI_ReadResized(r)
  \/ CI_UnlinkResized(r) \/ CV_LoopUnlink(r) \/ CV_UnlinkIn(r)
  \/ CV_Catch1(r) \/ CI_Catch2(r) \/ CF_Catch2(r)

\* ------------------------------------------------------------- behaviours
\* What an earlier all-pages split-pdf request at time t left in the temp directory
\* when its page loop failed: its catch block removed the input file only.
StaleDir(t) ==
  LET d0 == WriteFile(<<>>, InputName(t), Doc(2, 0))
  IN Unlink(SeparateAll(d0, InputName(t), t, 2), InputName(t))

\* The service is up; the temp directory is empty or holds what an earlier failed
\* request left behind.
Init ==
  /\ now = 100
  /\ dir \in {<<>>, StaleDir(99)}
  /\ rq = [r \in Reqs |-> IdleReq]
  /\ conc = FALSE

Next ==
  \E r \in Reqs :
    Arrive(r) \/ Resubmit(r) \/ SplitPoppler(r) \/ SplitLib(r) \/ ConvImg(r) \/ ConvPpm(r)

Spec == Init /\ [][Next]_vars

\* Two requests that may overlap, on the handlers that share the temp directory,
\* which starts empty.
InitConc ==
  /\ now = 100
  /\ dir = <<>>
  /\ rq = [r \in Reqs |-> IdleReq]
  /\ conc = TRUE

NextConc ==
  \E r \in Reqs : Arrive(r) \/ SplitPoppler(r) \/ ConvPpm(r)

SpecConc == InitConc /\ [][NextConc]_vars

\* The steps of request r's handler.
Handler(r) == SplitPoppler(r) \/ SplitLib(r) \/ ConvImg(r) \/ ConvPpm(r)


\* ------------------------------------------------------------ properties
ValidPdf(q) == q.pdf.t = "b64" /\ q.pdf.b.kind = "pdf"
\* The page count of the submitted document.
SourcePages(q) == Len(q.pdf.b.pages)
\* b is the base64 of a one-page PDF document showing page k of the request's document.
IsPageOf(b, q, k) ==
  /\ b.t = "b64" /\ FromBase64(b).kind = "pdf"
  /\ FromBase64(b).pages = <<q.pdf.b.pages[k]>>

\* C1: a split-pdf request with a valid N-page document and no page selector, whose
\* external calls all return, is answered 200 with count = N and N entries, entry i
\* having page = i and the one-page extraction of source page i (both variants).
C1_SplitAll ==
  \A r \in Reqs :
    LET q == rq[r] IN
    (Done(q) /\ q.variant \in SplitVariants /\ ValidPdf(q) /\ q.page = Undef /\ q.nfault = 0)
      => /\ q.resp.status = 200 /\ q.resp.kind = "pages"
         /\ q.resp.count = SourcePages(q)
         /\ Len(q.resp.items) = SourcePages(q)
         /\ \A i \in 1..Len(q.resp.items) :
              q.resp.items[i].page = i /\ IsPageOf(q.resp.items[i].base64, q, i)

\* C1 witness: the Poppler variant answered an all-pages request for the largest
\* document while files of an earlier request were in the temp directory.
C1_Witness ==
  \E r \in Reqs :
    LET q == rq[r] IN
    /\ Done(q) /\ q.variant = "splitPoppler" /\ q.page = Undef /\ q.resp.status = 200
    /\ ValidPdf(q) /\ SourcePages(q) = MaxPages
    /\ DOMAIN dir # {}

\* The number a `page` field stands for, or -1.
PageValue(page) == IF ParseInt(page).nan THEN 0 - 1 ELSE ParseInt(page).v

\* C2: a split-pdf request with a valid N-page document and page = k, 1 <= k <= N
\* (a number or a numeric string), whose external calls all return, is answered 200
\* with page = k, totalPages = N and the one-page extraction of source page k.
C2_SplitOne ==
  \A r \in Reqs :
    LET q == rq[r] IN
    (/\ Done(q) /\ q.variant \in SplitVariants /\ ValidPdf(q) /\ q.nfault = 0
     /\ q.page.t \in {"num", "str"}
     /\ PageValue(q.page) >= 1 /\ PageValue(q.page) <= SourcePages(q))
      => /\ q.resp.status = 200 /\ q.resp.kind = "single"
         /\ q.resp.page = Num(PageValue(q.page))
         /\ q.resp.totalPages = SourcePages(q)
         /\ IsPageOf(q.resp.base64, q, PageValue(q.page))

\* C2 witness: the Poppler variant answered page "2" (a string) of the largest document.
C2_Witness ==
  \E r \in Reqs :
    LET q == rq[r] IN
    /\ Done(q) /\ q.variant = "splitPoppler" /\ q.page = JsStr(Digits(2))
    /\ ValidPdf(q) /\ SourcePages(q) = MaxPages /\ q.resp.status = 200

\* C3 (as claimed): a split-pdf request with a valid N-page document and page 0 or
\* N + 1, as a number or as a numeric string, is answered 400 "Invalid page number"
\* with totalPages = N.
C3_OutOfRange ==
  \A r \in Reqs :
    LET q == rq[r] IN
    (/\ Done(q) /\ q.variant \in SplitVariants /\ ValidPdf(q) /\ q.nfault = 0
     /\ q.page \in {JsNum(0), JsStr(Digits(0)),
                    JsNum(SourcePages(q) + 1), JsStr(Digits(SourcePages(q) + 1))})
      => q.resp = InvalidPageResp(SourcePages(q))

\* C4 (as claimed): a split-pdf request with a valid document and a page that does
\* not parse to an integer never reaches the extraction step and is answered 400
\* "Invalid page number" with the document's totalPages.
C4_Unparsable ==
  \A r \in Reqs :
    LET q == rq[r] IN
    (/\ q.variant \in SplitVariants /\ ValidPdf(q) /\ q.nfault = 0
     /\ q.page.t = "str" /\ ParseInt(q.page).nan)
      => /\ q.pc \notin {"sp_sep1", "sp_sepAll", "sl_copy1", "sl_copyAll"}
         /\ Done(q) => q.resp = InvalidPageResp(SourcePages(q))

\* C5: on both endpoints, in every variant, a request without a pdf (absent or
\* empty) is answered 400 with exactly { error: "PDF data is required" }, whatever
\* page, pages and maxSize hold.
C5_PdfRequired ==
  \A r \in Reqs :
    LET q == rq[r] IN
    (Done(q) /\ (q.pdf = Undef \/ q.pdf = JsB64(EmptyBytes)))
      => q.resp = ErrResp(400, "PDF data is required")

\* C5 witness: a convert-to-images request with pages and maxSize but an empty pdf
\* was answered.
C5_Witness ==
  \E r \in Reqs :
    LET q == rq[r] IN
    /\ Done(q) /\ q.variant = "convIM" /\ q.pdf = JsB64(EmptyBytes)
    /\ q.pages = JsArr(<<1>>) /\ q.maxSize = JsNum(1)
    /\ q.resp.status = 400

\* C6 (as claimed): a convert-to-images request with a non-empty `pages` array of
\* valid page numbers, whose external calls all return, is answered 200 with one
\* image per requested element, the i-th image's page being the i-th requested number.
C6_RequestedOrder ==
  \A r \in Reqs :
    LET q == rq[r] IN
    (/\ Done(q) /\ q.variant \in ConvVariants /\ ValidPdf(q) /\ q.nfault = 0
     /\ HasSelection(q.pages))
      => /\ q.resp.status = 200 /\ q.resp.kind = "images"
         /\ Len(q.resp.items) = Len(q.pages.s)
         /\ \A i \in 1..Len(q.resp.items) : q.resp.items[i].page = q.pages.s[i]

\* C7: in the variants that write temp files, when a 200 or 400 response is sent no
\* file the request wrote (input, page or image outputs, resized image) is left in
\* the temp directory.
C7_CleanOnSuccess ==
  \A r \in Reqs :
    LET q == rq[r] IN
    (Done(q) /\ q.variant \in TempFileVariants /\ q.resp.status \in {200, 400})
      => q.created \cap DOMAIN dir = {}

\* C7 witness: the ImageMagick variant answered 200 after it wrote an input file,
\* several images and a resized image.
C7_Witness ==
  \E r \in Reqs :
    LET q == rq[r] IN
    /\ Done(q) /\ q.variant = "convIM" /\ q.resp.status = 200
    /\ Cardinality(q.created) >= 4
    /\ \E f \in q.created : EndsWith(f, S_resized)

\* C8 (as claimed): in the variants that write temp files, when a 500 response is
\* sent after a failure that followed the writing of the input file, no file the
\* request wrote is left in the temp directory.  Only runs whose cleanup calls all
\* returned are looked at.
C8_CleanOnFailure ==
  \A r \in Reqs :
    LET q == rq[r] IN
    (/\ Done(q) /\ q.variant \in TempFileVariants /\ q.resp.status = 500
     /\ q.tempPdfPath \in q.created /\ ~q.cfault)
      => q.created \cap DOMAIN dir = {}

\* C9 (as claimed): a failing unlink of a temp file is never surfaced: the request
\* is still answered 200 with its result, or 400 for an invalid page.
C9_UnlinkNotSurfaced ==
  \A r \in Reqs :
    LET q == rq[r] IN
    (Done(q) /\ q.err = "unlink") => q.resp.status \in {200, 400}

\* The failures of the extraction and rendering backends.
BackendErrors == {"pdfinfo", "pdfseparate", "pdftoppm", "convert", "load", "save"}

FlattenVariants == {"convFlat", "convForce", "convAppear"}

Paths(q) ==
  ({q.tempPdfPath} \ {<<>>}) \cup q.created \cup {q.files[i] : i \in 1..Len(q.files)}

\* C12 (as claimed): the temp file paths of two requests in flight at the same time
\* are disjoint, also when both obtained the same Date.now() value.
C12_Partitioned ==
  \A r1, r2 \in Reqs :
    (r1 # r2 /\ Busy(r1) /\ Busy(r2)) => Paths(rq[r1]) \cap Paths(rq[r2]) = {}

\* The images a convert-to-images request served alone may return for page content c.
AloneImages(q, c) ==
  LET img == Render(c) IN
  IF q.variant = "convIM" /\ img.size > MaxSizeBytes(q)
    THEN {[img EXCEPT !.size = z] :
            z \in ResizedSizes(img.size, ScalePercent(MaxSizeBytes(q), img.size))}
    ELSE {img}

\* The 200 responses with one image for each page number of sel, in that order.
AloneImagesResps(q, d, sel) ==
  LET entries(i) == {Entry(sel[i], img) : img \in AloneImages(q, d.pages[sel[i]])}
      all == UNION {entries(i) : i \in 1..Len(sel)}
  IN {ImagesResp(f) : f \in {g \in [1..Len(sel) -> all] : \A i \in 1..Len(sel) : g[i] \in entries(i)}}

\* The responses to a request with a valid document (all pages, one page number, or
\* an ascending selection of distinct pages) that is served alone and whose external
\* calls all return.
AloneResps(q) ==
  LET d == FromBase64(q.pdf)
      n == Len(d.pages)
      k == PageValue(q.page)
  IN CASE q.variant = "splitPoppler" /\ ~Truthy(q.page) ->
            {AllResp(n, [i \in 1..n |-> Entry(i, ExtractPage(d, i))])}
       [] q.variant = "splitPoppler" /\ Truthy(q.page) /\ k >= 1 /\ k <= n ->
            {SingleResp(Num(k), n, ExtractPage(d, k))}
       [] q.variant = "splitPoppler" /\ Truthy(q.page) /\ ~(k >= 1 /\ k <= n) ->
            {InvalidPageResp(n)}
       [] q.variant # "splitPoppler" /\ HasSelection(q.pages) ->
            AloneImagesResps(q, d, q.pages.s)
       [] OTHER ->
            AloneImagesResps(q, d, [i \in 1..n |-> i])

\* C13 (as claimed): when one of two overlapping requests failed and ran its error
\* cleanup, the other request, whose own calls all returned, is answered as it may be
\* answered when served alone.
C13_Isolation ==
  \A r1, r2 \in Reqs :
    (/\ r1 # r2 /\ conc
     /\ Done(rq[r1]) /\ rq[r1].nfault > 0 /\ rq[r1].resp.status = 500
     /\ Done(rq[r2]) /\ rq[r2].nfault = 0)
      => rq[r2].resp \in AloneResps(rq[r2])

\* C14 (as claimed): when a 400 response is sent, the request has invoked no
\* external tool or library and has written no temp file.
C14_ShortCircuit ==
  \A r \in Reqs :
    LET q == rq[r] IN
    (Done(q) /\ q.resp.status = 400) => (q.calls = {} /\ q.created = {})

\* C14 (amended): a 400 is "PDF data is required", sent before any engine call and
\* before any temp file is written, or "Invalid page number", sent after the page
\* count was obtained from the engine (pdfinfo on the temp input file in the Poppler
\* variant, PDFDocument.load in the pdf-lib variant) and before any extraction call,
\* no file but the temp input having been written.
C14_ShortCircuitPdfOnly ==
  \A r \in Reqs :
    LET q == rq[r] IN
    (Done(q) /\ q.resp.status = 400)
      => \/ /\ q.resp = ErrResp(400, "PDF data is required")
            /\ q.calls = {} /\ q.created = {} /\ q.tempPdfPath = <<>>
         \/ /\ q.resp = InvalidPageResp(q.pageCount)
            /\ q.variant = "splitPoppler"
            /\ q.calls = {"pdfinfo"} /\ q.created = {q.tempPdfPath}
         \/ /\ q.resp = InvalidPageResp(q.pageCount)
            /\ q.variant = "splitLib"
            /\ q.calls = {"load"} /\ q.created = {}

\* C14 witness: the Poppler variant answered 400 for a page past the end of the
\* document, after it wrote the input file and ran pdfinfo.
C14_Witness ==
  \E r \in Reqs :
    LET q == rq[r] IN
    /\ Done(q) /\ q.variant = "splitPoppler" /\ q.resp.status = 400
    /\ q.page = JsNum(MaxPages + 1) /\ q.calls = {"pdfinfo"} /\ q.created # {}

\* The steps a handler takes at most: arrival, the steps before its loop, those of
\* each pass of the loop, its catch block.
StepBound == 12 + 5 * MaxPages

\* C15: provided each external call returns or throws (also inside the catch block's
\* cleanup), a request in flight has sent no response and its handler has a next
\* step, it ends within StepBound steps, a request that ended has a response with
\* status 200, 400 or 500, and after the response its handler takes no further step.
C15_OneResponse ==
  /\ [](\A r \in Reqs :
          /\ Done(rq[r]) => rq[r].resp.status \in {200, 400, 500}
          /\ ~Done(rq[r]) => rq[r].resp = NoResp
          /\ Busy(r) => ENABLED Handler(r)
          /\ rq[r].steps <= StepBound)
  /\ [][\A r \in Reqs : Done(rq[r]) => rq'[r] = rq[r]]_vars

\* C15 witness: a call of the catch block's cleanup threw and the request was
\* answered 500.
C15_Witness ==
  \E r \in Reqs :
    LET q == rq[r] IN
    /\ Done(q) /\ q.variant = "convIM" /\ q.cfault /\ q.nfault > 0
    /\ q.resp.status = 500

\* C16: a page result of a 200 split-pdf response (single page or all pages),
\* submitted again as the pdf of a new split-pdf request with no page, is answered
\* 200 with count = 1 and exactly one entry, whose page is 1, when the external
\* calls of the new request return.
C16_RoundTrip ==
  \A r \in Reqs :
    LET q == rq[r] IN
    (q.resub /\ Done(q) /\ q.nfault = 0)
      => /\ q.resp.status = 200 /\ q.resp.kind = "pages"
         /\ q.resp.count = 1
         /\ Len(q.resp.items) = 1
         /\ q.resp.items[1].page = 1

\* C16 witness: the last page of the largest document, taken from an all-pages
\* response of the Poppler variant, was submitted again and answered.
C16_Witness ==
  \E r \in Reqs, o \in Reqs :
    /\ rq[r].resub /\ Done(rq[r]) /\ rq[r].variant = "splitPoppler"
    /\ rq[r].resp.status = 200
    /\ rq[o].resp.kind = "pages" /\ rq[o].resp.count = MaxPages
    /\ rq[r].pdf = rq[o].resp.items[MaxPages].base64

\* pct is floor(sqrt(maxBytes / length) * 0.9 * 100).
IsScalePercent(pct, maxBytes, length) ==
  /\ WideLeq(Wide(length, pct * pct), Wide(maxBytes, 8100))
  /\ ~WideLeq(Wide(length, (pct + 1) * (pct + 1)), Wide(maxBytes, 8100))

\* C17: in the ImageMagick variant an image is resized if and only if its byte
\* length is greater than maxSize * 1024 * 1024 (maxSize defaulting to 5); it is
\* resized at most once; the percentage is floor(sqrt(maxBytes / length) * 0.9 * 100),
\* an integer in 0..89; an image at or under the limit is returned as pdftoppm
\* rendered it.
C17_ResizeRule ==
  \A r \in Reqs :
    LET q == rq[r]
        maxBytes == MaxSizeBytes(q)
        n == Len(q.resizes)
    IN q.variant = "convIM"
         => /\ \A i \in 1..n :
                 /\ q.resizes[i].length > maxBytes
                 /\ q.resizes[i].pct \in 0..89
                 /\ IsScalePercent(q.resizes[i].pct, maxBytes, q.resizes[i].length)
                 /\ \A j \in 1..n : q.resizes[j].file = q.resizes[i].file => j = i
            /\ q.pc = "ci_resize" => q.cur.size > maxBytes
            /\ q.pc = "cv_loopUnlink" =>
                 LET file == Head(q.files)
                     img == FromBase64(q.acc[Len(q.acc)].base64)
                     was == Render(img.pages[1])
                 IN IF was.size > maxBytes
                      THEN \E i \in 1..n : /\ q.resizes[i].file = file
                                            /\ q.resizes[i].length = was.size
                      ELSE /\ img = was
                           /\ \A i \in 1..n : q.resizes[i].file # file

\* C17 witness: a request with the default maxSize was answered 200 with every page
\* of the largest document, the image one byte over the limit having been resized
\* to 89 percent and the image at the limit not.
C17_Witness ==
  \E r \in Reqs :
    LET q == rq[r] IN
    /\ Done(q) /\ q.variant = "convIM" /\ q.resp.status = 200 /\ q.maxSize = Undef
    /\ q.resp.count = MaxPages
    /\ Len(q.resizes) = 1
    /\ q.resizes[1].length = MaxSizeBytes(q) + 1 /\ q.resizes[1].pct = 89
    /\ \E i \in 1..Len(q.resp.items) :
         FromBase64(q.resp.items[i].base64).size = MaxSizeBytes(q)

\* C18 (as claimed): in the ImageMagick variant every image of a 200 response has a
\* byte length of at most maxSize * 1024 * 1024.
C18_ReturnedUnderLimit ==
  \A r \in Reqs :
    LET q == rq[r] IN
    (Done(q) /\ q.variant = "convIM" /\ q.resp.status = 200)
      => \A i \in 1..Len(q.resp.items) :
           FromBase64(q.resp.items[i].base64).size <= MaxSizeBytes(q)

====
